---- MODULE Spec2Model ----
(***************************************************************************)
(* Pinpoint word game (js/game.js): the game-state machine and the answer  *)
(* validation.  game.js holds two versions of the game logic (lines 1-394  *)
(* and lines 396-707); `variant` says which one runs.  Strings are         *)
(* sequences of one-character strings so that toLowerCase and trim are     *)
(* computed character by character.                                        *)
(***************************************************************************)
EXTENDS Integers, Sequences, FiniteSets, TLC

VARIABLES
  gameState,  \* the gameState object, plus the text of #feedback-message
  pc,         \* the app: "loading" until initApp has run, then "ready";
              \* the test script: "testing", then "tested"
  variant,    \* 1: game.js lines 1-394, 2: game.js lines 396-707
  probe,      \* the validateAnswer call of the test script and its result
  twin        \* side-by-side run of the two versions: the gameState of
              \* lines 396-707, while gameState is that of lines 1-394

vars == <<gameState, pc, variant, probe, twin>>

\* ---------------------------------------------------------------- bounds
MaxPuzzles == 2      \* largest number of puzzle records in a dataset
MaxGuesses == 6      \* cap on guesses.length where the code has no cap
MaxStrLen == 3       \* longest input string the test script tries
MaxAnswers == 2      \* longest acceptedAnswers list the test script tries

\* ------------------------------------------------------ program constants
GuessLimitOffByOne == 5 + 1
ClueLimitOneShort == 5 - 1
GuessLimit == 5      \* if (gameState.guesses.length >= 5)
ClueLimit == 5       \* if (gameState.revealedCluesCount < 5)
FirstPuzzleIdZeroBased == 1 - 1
FirstPuzzleId == 1   \* initGame(1)

Variants == {1, 2}

\* ---------------------------------------------------------------- strings
Whitespace == {" ", "\t", "\n"}

\* String.prototype.toLowerCase on one character
LowerChar(c) == IF c = "A" THEN "a" ELSE IF c = "B" THEN "b" ELSE c

ToLowerCase(s) == [i \in 1..Len(s) |-> LowerChar(s[i])]

RECURSIVE TrimStart(_)
TrimStart(s) ==
  IF s = <<>> THEN <<>>
  ELSE IF Head(s) \in Whitespace THEN TrimStart(Tail(s))
  ELSE s

RECURSIVE TrimEnd(_)
TrimEnd(s) ==
  IF s = <<>> THEN <<>>
  ELSE IF s[Len(s)] \in Whitespace THEN TrimEnd(SubSeq(s, 1, Len(s) - 1))
  ELSE s

TrimLeadingOnly(s) == TrimStart(s)

\* one whitespace character taken off each end
TrimOnce(s) ==
  LET t == IF s # <<>> /\ Head(s) \in Whitespace THEN Tail(s) ELSE s
  IN  IF t # <<>> /\ t[Len(t)] \in Whitespace THEN SubSeq(t, 1, Len(t) - 1)
      ELSE t

\* String.prototype.trim
Trim(s) == TrimEnd(TrimStart(s))

\* every whitespace character removed, inner ones included
normalizeInputCollapse(input) ==
  SelectSeq(ToLowerCase(input), LAMBDA c : c \notin Whitespace)

\* normalizeInput: input.toLowerCase().trim()
normalizeInput(input) == Trim(ToLowerCase(input))

\* acceptedAnswers.some(answer => normalizeInput(answer) === normalized),
\* scanning the array from index i
RECURSIVE SomeAnswerMatches(_, _, _)
SomeAnswerMatches(acceptedAnswers, normalized, i) ==
  IF i > Len(acceptedAnswers) THEN FALSE
  ELSE IF normalizeInput(acceptedAnswers[i]) = normalized THEN TRUE
  ELSE SomeAnswerMatches(acceptedAnswers, normalized, i + 1)

\* a fuzzy matcher: the input is a prefix of a normalized answer
validateAnswerPrefix(playerInput, acceptedAnswers) ==
  LET normalized == normalizeInput(playerInput)
  IN  \E i \in 1..Len(acceptedAnswers) :
        LET answer == normalizeInput(acceptedAnswers[i])
        IN  /\ Len(normalized) <= Len(answer)
            /\ SubSeq(answer, 1, Len(normalized)) = normalized

validateAnswer(playerInput, acceptedAnswers) ==
  LET normalized == normalizeInput(playerInput)
  IN  SomeAnswerMatches(acceptedAnswers, normalized, 1)

\* ---------------------------------------------------------------- puzzles
\* gameState.puzzles.find(p => p.id === id): index of the first match, 0 if none
RECURSIVE FindPuzzleIndex(_, _, _)
FindPuzzleIndex(puzzles, id, i) ==
  IF i > Len(puzzles) THEN 0
  ELSE IF puzzles[i].id = id THEN i
  ELSE FindPuzzleIndex(puzzles, id, i + 1)

\* getCurrentPuzzle() returned a puzzle (not undefined)
HasCurrentPuzzle(gs) == FindPuzzleIndex(gs.puzzles, gs.currentPuzzleId, 1) # 0

getCurrentPuzzle(gs) == gs.puzzles[FindPuzzleIndex(gs.puzzles, gs.currentPuzzleId, 1)]

\* the slice taken one entry short
getRevealedCluesOneShort(gs) ==
  IF ~HasCurrentPuzzle(gs) THEN <<>>
  ELSE SubSeq(getCurrentPuzzle(gs).clues, 1, gs.revealedCluesCount - 1)

\* getRevealedClues: puzzle.clues.slice(0, revealedCluesCount); variant 1
\* returns [] when there is no current puzzle (variant 2 throws there)
getRevealedClues(gs) ==
  IF ~HasCurrentPuzzle(gs) THEN <<>>
  ELSE LET clues == getCurrentPuzzle(gs).clues
       IN  SubSeq(clues, 1, IF gs.revealedCluesCount < Len(clues)
                            THEN gs.revealedCluesCount ELSE Len(clues))

\* ------------------------------------------------------------- game logic
setUIState(gs, state) == [gs EXCEPT !.uiState = state]

displayFeedback(gs, message) == [gs EXCEPT !.feedback = message]

completeGameResetClues(gs, won) ==
  setUIState([gs EXCEPT !.revealedCluesCount = 1], "results")

\* completeGame(won): fills the results screen, then setUIState('results')
completeGame(gs, won) == setUIState(gs, "results")

initGameKeepGuesses(gs, puzzleId, v) ==
  setUIState(displayFeedback([gs EXCEPT !.currentPuzzleId = puzzleId,
                                        !.revealedCluesCount = 1,
                                        !.status = "playing"], ""), "playing")

initGameNoClue(gs, puzzleId, v) ==
  setUIState(displayFeedback([gs EXCEPT !.currentPuzzleId = puzzleId,
                                        !.revealedCluesCount = 0,
                                        !.guesses = <<>>,
                                        !.status = "playing"], ""), "playing")

\* variant 2 looking the puzzle up before it resets anything
initGameLookupFirst(gs, puzzleId, v) ==
  LET reset == [gs EXCEPT !.currentPuzzleId = puzzleId, !.revealedCluesCount = 1,
                          !.guesses = <<>>, !.status = "playing"]
  IN  IF v = 2 /\ FindPuzzleIndex(gs.puzzles, puzzleId, 1) = 0 THEN gs
      ELSE setUIState(displayFeedback(reset, ""), "playing")

\* initGame(puzzleId).  In variant 2 updateCluesDisplay dereferences the
\* undefined puzzle and throws, so setUIState('playing') is not reached.
initGame(gs, puzzleId, v) ==
  LET reset == [gs EXCEPT !.currentPuzzleId = puzzleId,
                          !.revealedCluesCount = 1,
                          !.guesses = <<>>,
                          !.status = "playing"]
      cleared == displayFeedback(reset, "")
  IN  IF v = 2 /\ ~HasCurrentPuzzle(cleared) THEN cleared
      ELSE setUIState(cleared, "playing")

WonMessage(v) == IF v = 1 THEN "You won!" ELSE "Correct! You won!"
LostMessage(v) == IF v = 1 THEN "Game over. Maximum guesses reached."
                  ELSE "Game Over! Maximum guesses reached."

IsBlankNoTrim(guess) == guess = <<>>
\* !guess.trim()
IsBlank(guess) == Trim(guess) = <<>>

GameOverNever(gs) == FALSE
\* gameState.status !== 'playing'
GameOver(gs) == gs.status # "playing"

\* the next clue revealed before the guess is judged
judgeGuessRevealFirst(pushed, guess, v) ==
  LET revealed == IF pushed.revealedCluesCount < ClueLimit
                  THEN [pushed EXCEPT !.revealedCluesCount = @ + 1]
                  ELSE pushed
  IN  IF validateAnswer(guess, getCurrentPuzzle(pushed).acceptedAnswers)
      THEN completeGame(displayFeedback([revealed EXCEPT !.status = "won"],
                                        WonMessage(v)), TRUE)
      ELSE IF Len(pushed.guesses) >= GuessLimit
      THEN completeGame(displayFeedback([pushed EXCEPT !.status = "lost"],
                                        LostMessage(v)), FALSE)
      ELSE displayFeedback(revealed, "Incorrect! New clue revealed.")

\* the part of processGuess after gameState.guesses.push(guess): the win
\* check, then the guess-limit check, then the clue reveal
judgeGuess(pushed, guess, v) ==
  IF validateAnswer(guess, getCurrentPuzzle(pushed).acceptedAnswers)
  THEN completeGame(displayFeedback([pushed EXCEPT !.status = "won"],
                                    WonMessage(v)), TRUE)
  ELSE IF Len(pushed.guesses) >= GuessLimit
  THEN completeGame(displayFeedback([pushed EXCEPT !.status = "lost"],
                                    LostMessage(v)), FALSE)
  ELSE IF pushed.revealedCluesCount < ClueLimit
  THEN displayFeedback([pushed EXCEPT !.revealedCluesCount = @ + 1],
                       "Incorrect! New clue revealed.")
  ELSE displayFeedback(pushed, "Incorrect! Try again.")

\* the guess-limit check made before the win check
processGuessLossFirst(gs, guess, v) ==
  IF IsBlank(guess) THEN displayFeedback(gs, "Please enter a guess")
  ELSE IF GameOver(gs) THEN gs
  ELSE
    LET pushed == [gs EXCEPT !.guesses = Append(@, guess)]
    IN  IF ~HasCurrentPuzzle(gs) THEN pushed
        ELSE IF Len(pushed.guesses) >= GuessLimit
        THEN completeGame(displayFeedback([pushed EXCEPT !.status = "lost"],
                                          LostMessage(v)), FALSE)
        ELSE judgeGuess(pushed, guess, v)

\* the game-over guard made before the empty-input check
processGuessGuardFirst(gs, guess, v) ==
  IF GameOver(gs) THEN gs
  ELSE IF IsBlank(guess) THEN displayFeedback(gs, "Please enter a guess")
  ELSE
    LET pushed == [gs EXCEPT !.guesses = Append(@, guess)]
    IN  IF ~HasCurrentPuzzle(gs) THEN pushed
        ELSE judgeGuess(pushed, guess, v)

\* the winning guess judged without being pushed
processGuessWinNotCounted(gs, guess, v) ==
  IF IsBlank(guess) THEN displayFeedback(gs, "Please enter a guess")
  ELSE IF GameOver(gs) THEN gs
  ELSE IF HasCurrentPuzzle(gs)
          /\ validateAnswer(guess, getCurrentPuzzle(gs).acceptedAnswers)
  THEN judgeGuess(gs, guess, v)
  ELSE
    LET pushed == [gs EXCEPT !.guesses = Append(@, guess)]
    IN  IF ~HasCurrentPuzzle(gs) THEN pushed
        ELSE judgeGuess(pushed, guess, v)

\* the normalized guess pushed instead of the raw one
processGuessPushNormalized(gs, guess, v) ==
  IF IsBlank(guess) THEN displayFeedback(gs, "Please enter a guess")
  ELSE IF GameOver(gs) THEN gs
  ELSE
    LET pushed == [gs EXCEPT !.guesses = Append(@, normalizeInput(guess))]
    IN  IF ~HasCurrentPuzzle(gs) THEN pushed
        ELSE judgeGuess(pushed, guess, v)

\* processGuess(guess).  With no current puzzle the guess is pushed and
\* puzzle.acceptedAnswers then throws a TypeError.
processGuess(gs, guess, v) ==
  IF IsBlank(guess) THEN displayFeedback(gs, "Please enter a guess")
  ELSE IF GameOver(gs) THEN gs
  ELSE
    LET pushed == [gs EXCEPT !.guesses = Append(@, guess)]
    IN  IF ~HasCurrentPuzzle(gs) THEN pushed
        ELSE judgeGuess(pushed, guess, v)

\* the last puzzle never reached: < instead of <=
handleNextPuzzleStrict(gs, v) ==
  LET nextPuzzleId == gs.currentPuzzleId + 1
  IN  IF nextPuzzleId < Len(gs.puzzles) THEN initGame(gs, nextPuzzleId, v)
      ELSE IF v = 1 THEN setUIState(gs, "completed")
      ELSE initGame(gs, FirstPuzzleId, v)

\* the played puzzle taken off the front of the collection
handleNextPuzzleShift(gs, v) ==
  IF Len(gs.puzzles) > 1
    THEN initGame([gs EXCEPT !.puzzles = Tail(@)], gs.puzzles[2].id, v)
    ELSE setUIState(gs, "completed")

\* handleNextPuzzle: variant 1 shows the completion screen after the last
\* puzzle, variant 2 loops back to the first
handleNextPuzzle(gs, v) ==
  LET nextPuzzleId == gs.currentPuzzleId + 1
  IN  IF nextPuzzleId <= Len(gs.puzzles) THEN initGame(gs, nextPuzzleId, v)
      ELSE IF v = 1 THEN setUIState(gs, "completed")
      ELSE initGame(gs, FirstPuzzleId, v)

handleReplay(gs, v) == initGame(gs, gs.currentPuzzleId, v)

\* loadPuzzles: response is [ok, puzzles]; a failed fetch leaves puzzles = []
loadPuzzles(gs, response) ==
  IF response.ok THEN [gs EXCEPT !.puzzles = response.puzzles]
  ELSE displayFeedback(gs, "Error loading puzzles. Please refresh the page.")

\* initApp: await loadPuzzles(); setupEventListeners(); start the first game
initApp(gs, response, v) ==
  LET loaded == loadPuzzles(gs, response)
  IN  IF Len(loaded.puzzles) > 0 THEN initGame(loaded, FirstPuzzleId, v)
      ELSE displayFeedback(loaded,
             "No puzzles available. Please check data/puzzles.json")

\* ------------------------------------------------------------ input data
\* A puzzle record of data/puzzles.json
Puzzle(id) ==
  [id |-> id,
   category |-> IF id % 2 = 1 THEN "ab" ELSE "A",
   clues |-> << <<id, "clue1">>, <<id, "clue2">>, <<id, "clue3">>,
                <<id, "clue4">>, <<id, "clue5">> >>,
   acceptedAnswers |-> IF id % 2 = 1 THEN << <<"a", "b">>, <<"b">> >>
                       ELSE << <<"A">> >>]

\* ids 1..n in order
DenseIds(n) == [i \in 1..n |-> i]

\* ids 1..n-1 followed by n+1: a dataset whose ids are not dense
GappedIds(n) == [i \in 1..n |-> IF i = n THEN n + 1 ELSE i]

DatasetIds == {DenseIds(n) : n \in 0..MaxPuzzles}
                \cup {GappedIds(n) : n \in 1..MaxPuzzles}

Datasets == {[i \in 1..Len(ids) |-> Puzzle(ids[i])] : ids \in DatasetIds}

Responses == {[ok |-> TRUE, puzzles |-> d] : d \in Datasets}
               \cup {[ok |-> FALSE, puzzles |-> <<>>]}

\* what the player may type into #guess-input
RawGuesses ==
  { <<>>, <<" ", "\t", "\n">>,
    <<"a">>, <<"b">>, <<"\t", "A", "B", " ">>, <<"b", "a">> }

\* what tests/validation.test.js may pass to validateAnswer
Chars == {"a", "b", "A", "B", "."} \cup Whitespace

AllStrings == UNION {[1..n -> Chars] : n \in 0..MaxStrLen}

TestAnswers ==
  { <<"a", "b">>, <<"A">>, <<" ", "B">>, <<"a", " ", "b">>, <<"a", ".">> }

TestAnswerLists == UNION {[1..n -> TestAnswers] : n \in 0..MaxAnswers}

NoProbe == [playerInput |-> <<>>, acceptedAnswers |-> <<>>, result |-> FALSE]

\* ---------------------------------------------------------------- actions
Init ==
  /\ gameState = [puzzles |-> <<>>, currentPuzzleId |-> 1,
                  revealedCluesCount |-> 1, guesses |-> <<>>,
                  status |-> "playing", uiState |-> "playing",
                  feedback |-> ""]
  /\ pc \in {"loading", "testing"}
  /\ variant \in Variants
  /\ probe = NoProbe
  /\ twin = gameState

InitApp(response) ==
  /\ pc = "loading"
  /\ gameState' = initApp(gameState, response, variant)
  /\ pc' = "ready"
  /\ UNCHANGED <<variant, probe, twin>>

\* one test of the test script: result = validateAnswer(input, answers)
RunTest(playerInput, acceptedAnswers) ==
  /\ pc = "testing"
  /\ probe' = [playerInput |-> playerInput,
               acceptedAnswers |-> acceptedAnswers,
               result |-> validateAnswer(playerInput, acceptedAnswers)]
  /\ pc' = "tested"
  /\ UNCHANGED <<gameState, variant, twin>>

\* the submit listener: processGuess(guessInput.value)
HandleFormSubmit(guess) ==
  /\ pc = "ready"
  /\ Len(gameState.guesses) < MaxGuesses
  /\ gameState' = processGuess(gameState, guess, variant)
  /\ UNCHANGED <<pc, variant, probe, twin>>

HandleNextPuzzle ==
  /\ pc = "ready"
  /\ gameState' = handleNextPuzzle(gameState, variant)
  /\ UNCHANGED <<pc, variant, probe, twin>>

HandleReplay ==
  /\ pc = "ready"
  /\ gameState' = handleReplay(gameState, variant)
  /\ UNCHANGED <<pc, variant, probe, twin>>

Next ==
  \/ \E response \in Responses : InitApp(response)
  \/ /\ pc = "testing"
     /\ \E playerInput \in AllStrings, acceptedAnswers \in TestAnswerLists :
          RunTest(playerInput, acceptedAnswers)
  \/ \E guess \in RawGuesses : HandleFormSubmit(guess)
  \/ HandleNextPuzzle
  \/ HandleReplay

Spec == Init /\ [][Next]_vars

\* ------------------------------------------- the two versions side by side
\* Both versions of game.js receive the same dataset and the same events.
\* The comparison ends ("compared") with the first next-puzzle event past
\* the last puzzle.
InitPair ==
  /\ Init
  /\ pc = "loading"
  /\ variant = 1

PairInitApp(response) ==
  /\ pc = "loading"
  /\ gameState' = initApp(gameState, response, 1)
  /\ twin' = initApp(twin, response, 2)
  /\ pc' = "ready"
  /\ UNCHANGED <<variant, probe>>

PairFormSubmit(guess) ==
  /\ pc = "ready"
  /\ Len(gameState.guesses) < MaxGuesses
  /\ Len(twin.guesses) < MaxGuesses
  /\ gameState' = processGuess(gameState, guess, 1)
  /\ twin' = processGuess(twin, guess, 2)
  /\ UNCHANGED <<pc, variant, probe>>

PairNextPuzzle ==
  /\ pc = "ready"
  /\ gameState' = handleNextPuzzle(gameState, 1)
  /\ twin' = handleNextPuzzle(twin, 2)
  /\ pc' = IF gameState.currentPuzzleId + 1 <= Len(gameState.puzzles)
             THEN "ready" ELSE "compared"
  /\ UNCHANGED <<variant, probe>>

PairReplay ==
  /\ pc = "ready"
  /\ gameState' = handleReplay(gameState, 1)
  /\ twin' = handleReplay(twin, 2)
  /\ UNCHANGED <<pc, variant, probe>>

NextPair ==
  \/ \E response \in Responses : PairInitApp(response)
  \/ \E guess \in RawGuesses : PairFormSubmit(guess)
  \/ PairNextPuzzle
  \/ PairReplay

SpecPair == InitPair /\ [][NextPair]_vars

TypeOK ==
  /\ pc \in {"loading", "ready", "testing", "tested", "compared"}
  /\ variant \in Variants
  /\ gameState.status \in {"playing", "won", "lost"}
  /\ gameState.uiState \in {"playing", "results", "completed"}

\* ------------------------------------------------------------- properties
\* the four fields of the session
Session(gs) == <<gs.currentPuzzleId, gs.revealedCluesCount, gs.guesses, gs.status>>

\* a game is running on a puzzle of the loaded dataset
InSession == pc = "ready" /\ HasCurrentPuzzle(gameState)

Answers == getCurrentPuzzle(gameState).acceptedAnswers

LastGuess == gameState.guesses[Len(gameState.guesses)]

IdExists(puzzles, id) == \E i \in 1..Len(puzzles) : puzzles[i].id = id

\* some accepted answer is equal to the input once both are normalized
ExactMatch(g, A) == \E i \in 1..Len(A) : normalizeInput(g) = normalizeInput(A[i])

SameLetter(c, d) == c = d \/ {c, d} = {"a", "A"} \/ {c, d} = {"b", "B"}

\* v is a with the case of letters changed and whitespace put around it
IsVariantOf(v, a) ==
  \E lead \in 0..Len(v) :
    /\ lead + Len(a) <= Len(v)
    /\ \A k \in 1..lead : v[k] \in Whitespace
    /\ \A k \in 1..Len(a) : SameLetter(v[lead + k], a[k])
    /\ \A k \in (lead + Len(a) + 1)..Len(v) : v[k] \in Whitespace

IsVariantOfSome(v, A) == \E i \in 1..Len(A) : IsVariantOf(v, A[i])

AllIncorrect ==
  \A i \in 1..Len(gameState.guesses) : ~validateAnswer(gameState.guesses[i], Answers)

\* the step is processGuess(g)
SubmitStep(g) == pc = "ready" /\ gameState' = processGuess(gameState, g, variant)

\* the step is initGame(id)
StartStep(id) == pc = "ready" /\ gameState' = initGame(gameState, id, variant)

PuzzleIdRange == 1..(MaxPuzzles + 1)

\* C1: validateAnswer(g, A) is true exactly when normalize(g) equals
\* normalize(a) for some a in A (no prefix, substring or fuzzy match), and
\* in a game the last recorded guess made the status won exactly when it
\* matches an accepted answer of the puzzle in that way.
C1_ExactMatchOnly ==
  /\ pc = "tested" =>
       probe.result = ExactMatch(probe.playerInput, probe.acceptedAnswers)
  /\ (InSession /\ gameState.guesses # <<>>) =>
       (gameState.status = "won" <=> ExactMatch(LastGuess, Answers))

\* the prefix "a" of the accepted answer "ab" was submitted and rejected
C1_Witness ==
  /\ InSession
  /\ gameState.guesses # <<>>
  /\ LastGuess = <<"a">>
  /\ \E i \in 1..Len(Answers) : Answers[i] = <<"a", "b">>
  /\ gameState.status = "playing"

\* C2: a case and/or surrounding-whitespace variant of an accepted answer
\* validates, and once submitted in a game the status is won.
C2_VariantsAccepted ==
  /\ (pc = "tested" /\ IsVariantOfSome(probe.playerInput, probe.acceptedAnswers))
       => probe.result = TRUE
  /\ (InSession /\ gameState.guesses # <<>> /\ IsVariantOfSome(LastGuess, Answers))
       => gameState.status = "won"

\* "\tAB " was submitted for the accepted answer "ab"
C2_Witness ==
  /\ InSession
  /\ gameState.guesses # <<>>
  /\ LastGuess = <<"\t", "A", "B", " ">>
  /\ LastGuess \notin {Answers[i] : i \in 1..Len(Answers)}
  /\ IsVariantOfSome(LastGuess, Answers)
  /\ gameState.status = "won"

\* C3: with only incorrect guesses recorded in the session, the status is
\* lost once there are 5 of them and playing while there are fewer.
C3_LostAfterFiveIncorrect ==
  (InSession /\ AllIncorrect) =>
    /\ Len(gameState.guesses) = 5 => gameState.status = "lost"
    /\ Len(gameState.guesses) < 5 => gameState.status = "playing"

C3_Witness ==
  /\ InSession
  /\ AllIncorrect
  /\ Len(gameState.guesses) = 5
  /\ gameState.status = "lost"

\* C4: a correct guess recorded as the 1st to 5th guess of the session
\* leaves the status won, never lost.
C4_CorrectGuessWins ==
  (InSession /\ gameState.guesses # <<>> /\ validateAnswer(LastGuess, Answers)) =>
    /\ gameState.status = "won"
    /\ Len(gameState.guesses) \in 1..5

\* a correct 5th guess
C4_Witness ==
  /\ InSession
  /\ Len(gameState.guesses) = 5
  /\ validateAnswer(LastGuess, Answers)
  /\ gameState.status = "won"

\* C5: from a won or lost session, a processGuess step changes no session
\* field, and a step that changes one is initGame giving a fresh session.
C5_TerminalUntilReset ==
  [][(pc = "ready" /\ gameState.status \in {"won", "lost"}) =>
       /\ \A g \in RawGuesses :
            SubmitStep(g) => Session(gameState') = Session(gameState)
       /\ Session(gameState') # Session(gameState) =>
            /\ \E id \in PuzzleIdRange : StartStep(id)
            /\ gameState'.status = "playing"
            /\ gameState'.guesses = <<>>
            /\ gameState'.revealedCluesCount = 1]_vars

\* a finished game that was given one more empty guess
C5_Witness ==
  /\ InSession
  /\ gameState.status \in {"won", "lost"}
  /\ gameState.feedback = "Please enter a guess"

\* C6: while playing, processGuess of an input that is empty after
\* normalization shows 'Please enter a guess' and changes nothing else.
C6_EmptyGuessRejected ==
  [][\A g \in RawGuesses :
       (SubmitStep(g) /\ gameState.status = "playing" /\ normalizeInput(g) = <<>>) =>
         /\ gameState'.feedback = "Please enter a guess"
         /\ gameState' = [gameState EXCEPT !.feedback = "Please enter a guess"]]_vars

\* a running game with guesses recorded, after an empty guess
C6_Witness ==
  /\ InSession
  /\ gameState.status = "playing"
  /\ gameState.guesses # <<>>
  /\ gameState.feedback = "Please enter a guess"

\* C7 as stated: when the status is not playing, processGuess of any input,
\* empty ones included, changes nothing and reports nothing.
C7_SilentAfterEnd ==
  [][\A g \in RawGuesses :
       (SubmitStep(g) /\ gameState.status # "playing") => gameState' = gameState]_vars

\* C7 amended: when the status is not playing, processGuess changes no part
\* of gameState; a non-empty input reports nothing, an input that is empty
\* after normalization still shows 'Please enter a guess'.
C7_NoOpAfterEnd ==
  (pc = "ready" /\ gameState.status # "playing") =>
    \A g \in RawGuesses :
      LET after == processGuess(gameState, g, variant)
      IN  /\ [after EXCEPT !.feedback = ""] = [gameState EXCEPT !.feedback = ""]
          /\ normalizeInput(g) # <<>> => after.feedback = gameState.feedback
          /\ normalizeInput(g) = <<>> => after.feedback = "Please enter a guess"

\* a lost game that was given an empty guess
C7_Witness ==
  /\ InSession
  /\ gameState.status = "lost"
  /\ Len(gameState.guesses) = 5
  /\ gameState.feedback = "Please enter a guess"

\* C8 as stated: initGame for an id that no loaded puzzle has leaves the
\* session as it was.
C8_UnknownIdLeavesSession ==
  [][\A id \in PuzzleIdRange :
       (StartStep(id) /\ ~IdExists(gameState.puzzles, id)) =>
         Session(gameState') = Session(gameState)]_vars

\* C9: initGame for the id of a loaded puzzle gives the session
\* {id, 1 clue, no guesses, playing} whatever the session was, and replay
\* does so for the current id.
C9_StartGivesFreshSession ==
  [][/\ \A id \in PuzzleIdRange :
          (StartStep(id) /\ IdExists(gameState.puzzles, id)) =>
            Session(gameState') = <<id, 1, <<>>, "playing">>
     /\ (HandleReplay /\ HasCurrentPuzzle(gameState)) =>
          Session(gameState') = <<gameState.currentPuzzleId, 1, <<>>, "playing">>]_vars

\* a fresh session on the second puzzle, which only a restart reaches
C9_Witness ==
  /\ InSession
  /\ Session(gameState) = <<2, 1, <<>>, "playing">>
  /\ gameState.uiState = "playing"

\* C10: revealedCluesCount is an integer from 1 to 5.
C10_RevealedCluesInRange == gameState.revealedCluesCount \in 1..5

C10_Witness ==
  /\ InSession
  /\ gameState.revealedCluesCount = 5
  /\ gameState.status = "playing"

\* C11: a processGuess step never lowers revealedCluesCount, and a step
\* that lowers it is initGame, which sets it to 1.
C11_CluesNeverDecrease ==
  [][pc = "ready" =>
       /\ \A g \in RawGuesses :
            SubmitStep(g) =>
              gameState'.revealedCluesCount >= gameState.revealedCluesCount
       /\ gameState'.revealedCluesCount < gameState.revealedCluesCount =>
            /\ gameState'.revealedCluesCount = 1
            /\ \E id \in PuzzleIdRange : StartStep(id)]_vars

\* a game won on the 3rd guess with its 3 clues still revealed
C11_Witness ==
  /\ InSession
  /\ gameState.status = "won"
  /\ Len(gameState.guesses) = 3
  /\ gameState.revealedCluesCount = 3

\* C12: processGuess of a correct guess while playing wins and leaves
\* revealedCluesCount, and so the list getRevealedClues returns, unchanged.
C12_WinRevealsNoClue ==
  (InSession /\ gameState.status = "playing") =>
    \A g \in RawGuesses :
      (normalizeInput(g) # <<>> /\ ExactMatch(g, Answers)) =>
        LET after == processGuess(gameState, g, variant)
        IN  /\ after.status = "won"
            /\ after.revealedCluesCount = gameState.revealedCluesCount
            /\ getRevealedClues(after) = getRevealedClues(gameState)

\* a game won on the 2nd guess with 2 clues revealed
C12_Witness ==
  /\ InSession
  /\ gameState.status = "won"
  /\ Len(gameState.guesses) = 2
  /\ gameState.revealedCluesCount = 2
  /\ Len(getRevealedClues(gameState)) = 2

\* C13: processGuess adds exactly one entry to guesses when the status is
\* playing and the input is not empty after normalization (a winning or
\* losing guess included), and leaves guesses.length unchanged otherwise.
C13_GuessCounting ==
  pc = "ready" =>
    \A g \in RawGuesses :
      LET after == processGuess(gameState, g, variant)
          accepted == gameState.status = "playing" /\ normalizeInput(g) # <<>>
      IN  Len(after.guesses) = Len(gameState.guesses) + (IF accepted THEN 1 ELSE 0)

\* a game won on the first guess, which is counted
C13_Witness ==
  /\ InSession
  /\ gameState.status = "won"
  /\ Len(gameState.guesses) = 1
  /\ ExactMatch(LastGuess, Answers)

\* C14: while playing, processGuess of an incorrect non-empty guess that is
\* not the 5th guess raises revealedCluesCount by exactly 1 and leaves the
\* status playing.
C14_IncorrectRevealsOneClue ==
  (InSession /\ gameState.status = "playing") =>
    \A g \in RawGuesses :
      (normalizeInput(g) # <<>> /\ ~ExactMatch(g, Answers)
         /\ Len(gameState.guesses) + 1 < 5) =>
        LET after == processGuess(gameState, g, variant)
        IN  /\ after.revealedCluesCount = gameState.revealedCluesCount + 1
            /\ after.status = "playing"

\* four incorrect guesses have revealed all five clues
C14_Witness ==
  /\ InSession
  /\ gameState.status = "playing"
  /\ Len(gameState.guesses) = 4
  /\ gameState.revealedCluesCount = 5
  /\ gameState.feedback = "Incorrect! New clue revealed."

\* C15: getRevealedClues returns the first revealedCluesCount clues of the
\* current puzzle, in their order.
C15_RevealedCluesArePrefix ==
  InSession =>
    LET revealed == getRevealedClues(gameState)
        clues == getCurrentPuzzle(gameState).clues
    IN  /\ Len(revealed) = gameState.revealedCluesCount
        /\ \A i \in 1..gameState.revealedCluesCount : revealed[i] = clues[i]

\* three clues of the second puzzle are revealed
C15_Witness ==
  /\ InSession
  /\ gameState.currentPuzzleId = 2
  /\ gameState.revealedCluesCount = 3
  /\ getRevealedClues(gameState) = << <<2, "clue1">>, <<2, "clue2">>, <<2, "clue3">> >>

\* the ids of the loaded puzzles are 1..n in order
IsDense(puzzles) == \A i \in 1..Len(puzzles) : puzzles[i].id = i

\* C16 as stated: next-puzzle starts a fresh session on currentPuzzleId + 1
\* when a puzzle has that id and on the first puzzle's id otherwise.
C16_NextAlwaysRestarts ==
  [][(HandleNextPuzzle /\ HasCurrentPuzzle(gameState)) =>
       LET next == gameState.currentPuzzleId + 1
           target == IF IdExists(gameState.puzzles, next) THEN next
                     ELSE gameState.puzzles[1].id
       IN  Session(gameState') = <<target, 1, <<>>, "playing">>]_vars

\* C16 amended: handleNextPuzzle starts a fresh session on
\* currentPuzzleId + 1 when that is at most the number of puzzles (with
\* dense ids: when a puzzle has that id); otherwise version 2 starts a fresh
\* session on puzzle 1 and version 1 keeps the session and shows the
\* completion screen.
C16_NextPuzzle ==
  pc = "ready" =>
    LET after == handleNextPuzzle(gameState, variant)
        next == gameState.currentPuzzleId + 1
    IN  /\ (IsDense(gameState.puzzles) /\ HasCurrentPuzzle(gameState)) =>
             (IdExists(gameState.puzzles, next) <=> next <= Len(gameState.puzzles))
        /\ next <= Len(gameState.puzzles) =>
             Session(after) = <<next, 1, <<>>, "playing">>
        /\ (next > Len(gameState.puzzles) /\ variant = 2) =>
             Session(after) = <<1, 1, <<>>, "playing">>
        /\ (next > Len(gameState.puzzles) /\ variant = 1) =>
             /\ Session(after) = Session(gameState)
             /\ after.uiState = "completed"

\* version 1 after next-puzzle on the last of two puzzles
C16_Witness ==
  /\ InSession
  /\ variant = 1
  /\ Len(gameState.puzzles) = 2
  /\ gameState.currentPuzzleId = 2
  /\ gameState.uiState = "completed"

\* C17 as stated: when the fetch of the dataset fails, the failure reaches
\* the caller of loadPuzzles, so initApp does not go on as after a load.
C17_LoadFailureSignalled ==
  [][\A response \in Responses :
       (InitApp(response) /\ ~response.ok) => pc' # "ready"]_vars

\* C18 as stated: with no puzzle loaded (no game was started by initApp), a
\* submitted non-empty guess changes nothing.
C18_NoGuessWithoutSession ==
  [][\A g \in RawGuesses :
       (SubmitStep(g) /\ Len(gameState.puzzles) = 0 /\ normalizeInput(g) # <<>>) =>
         gameState' = gameState]_vars

\* C19: normalizing a normalized string returns it unchanged; a normalized
\* string has no upper-case letter and no whitespace at either end.
C19_NormalizeIdempotent ==
  pc = "tested" =>
    LET n == normalizeInput(probe.playerInput)
    IN  /\ normalizeInput(n) = n
        /\ \A i \in 1..Len(n) : n[i] \notin {"A", "B"}
        /\ n # <<>> => (n[1] \notin Whitespace /\ n[Len(n)] \notin Whitespace)

\* " A\t" was normalized to "a"
C19_Witness ==
  /\ pc = "tested"
  /\ probe.playerInput = <<" ", "A", "\t">>
  /\ normalizeInput(probe.playerInput) = <<"a">>
  /\ normalizeInput(<<"a">>) = <<"a">>

\* the part of s between its first and last non-whitespace characters
Core(s) ==
  LET inked == {i \in 1..Len(s) : s[i] \notin Whitespace}
  IN  IF inked = {} THEN <<>>
      ELSE SubSeq(s, CHOOSE i \in inked : \A j \in inked : i <= j,
                     CHOOSE i \in inked : \A j \in inked : i >= j)

Fold(c) == CASE c = "A" -> "a" [] c = "B" -> "b" [] OTHER -> c

\* s trimmed and lowercased, inner characters kept
Canonical(s) == [i \in 1..Len(Core(s)) |-> Fold(Core(s)[i])]

\* s with every whitespace and punctuation character dropped
Squeeze(s) == SelectSeq(Canonical(s), LAMBDA c : c \notin Whitespace \cup {"."})

\* C20: an input that equals an accepted answer only once inner whitespace
\* or punctuation is dropped, and equals none after trimming and
\* lowercasing, is judged incorrect.
C20_InnerSpacingMatters ==
  pc = "tested" =>
    LET A == probe.acceptedAnswers
    IN  ( /\ \E i \in 1..Len(A) : Squeeze(probe.playerInput) = Squeeze(A[i])
          /\ \A i \in 1..Len(A) : Canonical(probe.playerInput) # Canonical(A[i]) )
          => probe.result = FALSE

\* "AB" was tried against the accepted answer "a b"
C20_Witness ==
  /\ pc = "tested"
  /\ probe.playerInput = <<"A", "B">>
  /\ probe.acceptedAnswers = << <<"a", " ", "b">> >>
  /\ probe.result = FALSE

\* C21: once loaded, the puzzle collection is what the load delivered, and
\* processGuess, handleNextPuzzle and handleReplay return it unmodified.
C21_PuzzlesReadOnly ==
  pc = "ready" =>
    /\ gameState.puzzles \in Datasets
    /\ \A g \in RawGuesses :
         processGuess(gameState, g, variant).puzzles = gameState.puzzles
    /\ handleNextPuzzle(gameState, variant).puzzles = gameState.puzzles
    /\ handleReplay(gameState, variant).puzzles = gameState.puzzles

\* both puzzles are intact after a lost game and a move to the second one
C21_Witness ==
  /\ pc = "ready"
  /\ gameState.puzzles = <<Puzzle(1), Puzzle(2)>>
  /\ gameState.currentPuzzleId = 2
  /\ gameState.status = "lost"

\* C22: with a loaded dataset whose ids are 1..n (n >= 1), currentPuzzleId
\* is the id of a loaded puzzle.
C22_CurrentPuzzleExists ==
  (pc = "ready" /\ IsDense(gameState.puzzles) /\ Len(gameState.puzzles) > 0) =>
    /\ IdExists(gameState.puzzles, gameState.currentPuzzleId)
    /\ HasCurrentPuzzle(gameState)

\* the second of two puzzles is being played
C22_Witness ==
  /\ InSession
  /\ IsDense(gameState.puzzles)
  /\ Len(gameState.puzzles) = 2
  /\ gameState.currentPuzzleId = 2
  /\ gameState.status = "playing"
  /\ gameState.revealedCluesCount = 2

\* the inputs processGuess accepts
NonBlankGuesses == {g \in RawGuesses : normalizeInput(g) # <<>>}

\* C23: while playing, processGuess of a non-empty input appends the input
\* as typed to the end of guesses, so guesses holds raw accepted inputs.
C23_RawGuessAppended ==
  pc = "ready" =>
    /\ \A i \in 1..Len(gameState.guesses) : gameState.guesses[i] \in NonBlankGuesses
    /\ gameState.status = "playing" =>
         \A g \in NonBlankGuesses :
           processGuess(gameState, g, variant).guesses = Append(gameState.guesses, g)

\* the same raw input, with its capitals and whitespace, recorded twice
C23_Witness ==
  /\ pc = "ready"
  /\ Len(gameState.guesses) = 2
  /\ gameState.guesses[1] = <<"\t", "A", "B", " ">>
  /\ gameState.guesses[2] = <<"\t", "A", "B", " ">>

Validates(i) == validateAnswer(gameState.guesses[i], Answers)

\* C24: in a session, the status is won exactly when the last guess
\* validates and no earlier one does, lost exactly when there are 5 guesses
\* and none validates, and playing otherwise.
C24_StatusFromGuesses ==
  InSession =>
    LET n == Len(gameState.guesses)
        wonCase == n > 0 /\ Validates(n) /\ \A i \in 1..(n - 1) : ~Validates(i)
        lostCase == n = 5 /\ \A i \in 1..n : ~Validates(i)
    IN  /\ gameState.status = "won" <=> wonCase
        /\ gameState.status = "lost" <=> lostCase
        /\ gameState.status = "playing" <=> (~wonCase /\ ~lostCase)

\* won on the 4th guess after three guesses that do not validate
C24_Witness ==
  /\ InSession
  /\ Len(gameState.guesses) = 4
  /\ gameState.status = "won"
  /\ Validates(4)
  /\ ~Validates(1) /\ ~Validates(2) /\ ~Validates(3)

\* C25: in a session guesses never has more than 5 entries, and with 5
\* entries processGuess adds none.
C25_AtMostFiveGuesses ==
  InSession =>
    /\ Len(gameState.guesses) <= 5
    /\ Len(gameState.guesses) = 5 =>
         \A g \in RawGuesses :
           processGuess(gameState, g, variant).guesses = gameState.guesses

\* five guesses recorded, results shown
C25_Witness ==
  /\ InSession
  /\ Len(gameState.guesses) = 5
  /\ gameState.status \in {"won", "lost"}
  /\ gameState.uiState = "results"

\* C26: while playing in a session, revealedCluesCount is guesses.length + 1,
\* and the 'Incorrect! Try again.' branch has never been taken.
C26_CluesFollowGuesses ==
  InSession =>
    /\ gameState.status = "playing" =>
         gameState.revealedCluesCount = Len(gameState.guesses) + 1
    /\ gameState.feedback # "Incorrect! Try again."

\* three incorrect guesses, four clues
C26_Witness ==
  /\ InSession
  /\ gameState.status = "playing"
  /\ Len(gameState.guesses) = 3
  /\ gameState.revealedCluesCount = 4

\* C27: on a dense dataset, in a session, the screen shown agrees with the
\* status: 'playing' exactly while the status is playing, 'results' or
\* 'completed' only once it is won or lost.
C27_UiAgreesWithStatus ==
  (InSession /\ IsDense(gameState.puzzles)) =>
    /\ gameState.uiState = "playing" <=> gameState.status = "playing"
    /\ gameState.uiState \in {"results", "completed"} =>
         gameState.status \in {"won", "lost"}

RECURSIVE EndsWithin(_, _, _)
\* every run of k non-empty submissions from gs passes through won or lost
EndsWithin(gs, k, v) ==
  IF gs.status # "playing" THEN TRUE
  ELSE IF k = 0 THEN FALSE
  ELSE \A g \in NonBlankGuesses : EndsWithin(processGuess(gs, g, v), k - 1, v)

\* C28: from a playing state of a session, any 5 - guesses.length non-empty
\* submissions in a row, with no start in between, end the game.
C28_EndsUnderContinuedPlay ==
  (InSession /\ gameState.status = "playing") =>
    /\ Len(gameState.guesses) < 5
    /\ EndsWithin(gameState, 5 - Len(gameState.guesses), variant)

\* the second puzzle played to its end with the last possible submission
C28_Witness ==
  /\ InSession
  /\ gameState.currentPuzzleId = 2
  /\ gameState.status = "lost"
  /\ Len(gameState.guesses) = 5
  /\ gameState.revealedCluesCount = 5

\* C29 as stated: under the same dataset and the same guess, replay and
\* next-puzzle events the two versions hold the same session.
C29_VersionsAgree ==
  pc \in {"ready", "compared"} => Session(gameState) = Session(twin)

\* C29: under the same dataset and the same guess, replay and next-puzzle
\* events the two versions hold the same puzzles and the same session, as
\* long as no next-puzzle event has come at the last puzzle.
C29_VersionsAgreeUpToLastPuzzle ==
  pc = "ready" =>
    /\ gameState.puzzles = twin.puzzles
    /\ Session(gameState) = Session(twin)

\* both versions have lost the second puzzle after the same five guesses
C29_Witness ==
  /\ pc = "ready"
  /\ HasCurrentPuzzle(gameState) /\ HasCurrentPuzzle(twin)
  /\ twin.currentPuzzleId = 2
  /\ twin.status = "lost"
  /\ Len(twin.guesses) = 5
  /\ gameState.feedback # twin.feedback
====
